---------------------------- MODULE Spec2Model ----------------------------
(***************************************************************************)
(* Hacker Wars (src/src/main.rs): the Update schedule of the Bevy app as a *)
(* frame-stepped state machine.                                            *)
(*                                                                         *)
(* Units.  Lengths are in units of 10 px, time in ticks of 0.1 s, angles   *)
(* in eighths of a turn, axis samples in tenths (10 is the sample 1.0).    *)
(* Positions are kept to the length unit, rounded toward zero.             *)
(*                                                                         *)
(* Engine semantics the systems rely on (Bevy 0.11):                       *)
(*  - Commands (spawn, despawn, insert, remove) are deferred: they are     *)
(*    applied, in the order the systems ran, when the schedule ends.       *)
(*    Inserting a component on an entity that no longer exists panics;     *)
(*    removing from or despawning one that no longer exists does not.      *)
(*  - An event is readable in the frame it is sent and in the next one;    *)
(*    an EventReader advances one event at a time, so a loop that returns  *)
(*    early leaves the rest of the batch unread.                           *)
(*  - Systems of one schedule run in any order compatible with the         *)
(*    .after() edges.                                                      *)
(***************************************************************************)
EXTENDS Integers, Sequences, FiniteSets, TLC

VARIABLES
    players,    \* player entities, in storage order
    bullets,    \* bullet entities, in storage order
    config,     \* PlayerConfig and BulletConfig
    gamepads,   \* Gamepads: ids of the connected devices
    connQ,      \* GamepadConnectionEvent not yet read by gamepad_connections
    btnQ,       \* GamepadEvent (Mode button) not yet read by handle_buttons
    cfgQ,       \* PlayerConfigChanged not yet read by respond_to_player_config_change
    diedQ,      \* PlayerDied not yet read by kill_player
    cmds,       \* Commands queued in this frame
    dt,         \* Time::delta of this frame
    order,      \* systems still to run in this frame
    pc,         \* "idle" between frames, "run" inside one, "panic"
    frame,      \* frames started
    used,       \* inputs so far: [events] of all kinds, device [ids] handed out
    obs         \* what the last collision pass, movement and spawning step did (history)

vars == <<players, bullets, config, gamepads, connQ, btnQ, cfgQ, diedQ,
          cmds, dt, order, pc, frame, used, obs>>

-----------------------------------------------------------------------------
(* Bounds of the exploration *)

(* Frames per run; devices; inputs per run (connection events, button      *)
(* events, edits in the settings window, deflected sticks, slow frames).   *)
MaxFrames == 4
MaxDevices == 2
MaxEvents == 4

(* The specification of endless play: the inputs it allows, and the number *)
(* of bullets in the world beyond which it stops following the world.      *)
LiveEvents == 2
MaxBullets == 40

(* Program constants, in model units *)

HalfW == 75
HalfH == 50
F32Max == 1000000

Devices == 0 .. (MaxDevices - 1)


Systems == {"gamepad_connections", "player_movement", "player_rotation",
            "create_bullets", "apply_velocity", "despawn_bullets",
            "check_for_collisions", "config_ui_system",
            "respond_to_player_config_change", "handle_buttons", "kill_player"}

(* .after() edges of the Update schedule: <<a, b>> means b runs after a. *)
After == {<<"apply_velocity", "check_for_collisions">>,
          <<"player_movement", "check_for_collisions">>,
          <<"player_movement", "kill_player">>}

IndexOf(seq, x) == CHOOSE i \in 1 .. Len(seq) : seq[i] = x

IsSchedule(seq) ==
    /\ Len(seq) = Cardinality(Systems)
    /\ {seq[i] : i \in 1 .. Len(seq)} = Systems
    /\ \A e \in After : IndexOf(seq, e[1]) < IndexOf(seq, e[2])

(* The execution orders explored: the tuple's own order, and orders that   *)
(* turn around the pairs the schedule leaves unordered.                    *)
Schedules ==
    { <<"gamepad_connections", "player_movement", "player_rotation",
        "create_bullets", "apply_velocity", "despawn_bullets",
        "check_for_collisions", "config_ui_system",
        "respond_to_player_config_change", "handle_buttons", "kill_player">>,
      <<"handle_buttons", "config_ui_system", "respond_to_player_config_change",
        "gamepad_connections", "player_movement", "kill_player",
        "player_rotation", "create_bullets", "despawn_bullets",
        "apply_velocity", "check_for_collisions">>,
      <<"respond_to_player_config_change", "config_ui_system", "handle_buttons",
        "player_movement", "player_rotation", "apply_velocity",
        "check_for_collisions", "kill_player", "create_bullets",
        "despawn_bullets", "gamepad_connections">> }

-----------------------------------------------------------------------------
(* Arithmetic *)

Abs(a) == IF a < 0 THEN -a ELSE a

Sign(a) == IF a < 0 THEN -1 ELSE IF a > 0 THEN 1 ELSE 0

(* Division rounding toward zero, b > 0 *)
TruncDiv(a, b) == Sign(a) * (Abs(a) \div b)

ISqrt(n) == CHOOSE r \in 0 .. n : r * r <= n /\ (r + 1) * (r + 1) > n

Min(a, b) == IF a < b THEN a ELSE b

Max(a, b) == IF a > b THEN a ELSE b

(* Vec3::clamp, per axis *)
Clamp(v, lo, hi) == Min(Max(v, lo), hi)

-----------------------------------------------------------------------------
(* Configuration *)

(* insert_resource(PlayerConfig {..}) and insert_resource(BulletConfig {..}):   *)
(* 500 px/s, 13 rad/s (1.66 eighths of a turn per tick, kept as 2), 0.1 s,      *)
(* 50 px, not invincible, 10 health; 600 px/s, colliding, 10 px.                *)
InitConfig ==
    [speed |-> 5, turning_speed |-> 2, shooting_delay |-> 1, scale |-> 5,
     invincible |-> FALSE, starting_health |-> 10,
     bullet_speed |-> 6, collide |-> TRUE, bullet_scale |-> 1]

(* Values the sliders are dragged to: health (1..=1000), shooting delay    *)
(* (0.0..=1.0 s, in ticks), player speed (50.0..=1000.0 px/s, per tick)    *)
HealthChoices == {1, 2}
DelayChoices == {1, 2}
SpeedChoices == {5, 10}

(* What one frame of the settings window can do: one widget is dragged or  *)
(* clicked.  The sliders of the turning speed, of the scales and of the    *)
(* bullet speed are left where they are.                                   *)
UiEdits(c) ==
    {[c EXCEPT !.invincible = ~c.invincible],
     [c EXCEPT !.collide = ~c.collide]}
    \cup {[c EXCEPT !.speed = v] : v \in SpeedChoices \ {c.speed}}
    \cup {[c EXCEPT !.starting_health = h] : h \in HealthChoices \ {c.starting_health}}
    \cup {[c EXCEPT !.shooting_delay = d] : d \in DelayChoices \ {c.shooting_delay}}

(* The condition under which config_ui_system sends PlayerConfigChanged *)
PlayerConfigEdited(old, new) ==
    \/ new.shooting_delay # old.shooting_delay
    \/ new.scale # old.scale
    \/ new.invincible # old.invincible
    \/ new.starting_health # old.starting_health

-----------------------------------------------------------------------------
(* Inputs *)

(* Frame times: a frame of one tick, and a slow frame of two (an input of  *)
(* the run, like an event)                                                 *)
Dts == {1, 2}

(* Left stick samples, in tenths: released, full right, full up-right *)
MoveAxes == {<<0, 0>>, <<10, 0>>, <<10, 10>>}

(* Right stick samples, in tenths: released, right, left *)
AimAxes == {<<0, 0>>, <<10, 0>>, <<-10, 0>>}

(* Outcomes of rand::thread_rng().gen_range(-w..w), gen_range(-h..h) *)
SpawnPoints == {<<66, 0>>, <<72, 0>>}

(* Outcomes of gen_range(0.0..2.0 * PI), in eighths of a turn *)
SpawnRots == {6}

-----------------------------------------------------------------------------
(* Pure parts of the systems *)

(* player_movement: the stick vector, normalised when longer than 1.0 *)
StickVector(v) ==
    LET d2 == v[1] * v[1] + v[2] * v[2]
    IN  IF d2 > 100
        THEN <<TruncDiv(v[1] * 10, ISqrt(d2)), TruncDiv(v[2] * 10, ISqrt(d2))>>
        ELSE v

(* Mutant: the clamp to the window is missing *)
MovedPosition_NoClamp(x, y, axis, speed, delta) ==
    <<x + TruncDiv(speed * delta * StickVector(axis)[1], 10),
      y + TruncDiv(speed * delta * StickVector(axis)[2], 10)>>

(* player_movement: translation += movement_amount * v, then clamp *)
MovedPosition(x, y, axis, speed, delta) ==
    LET movement_amount == speed * delta
        v == StickVector(axis)
    IN  <<Clamp(x + TruncDiv(movement_amount * v[1], 10), -HalfW, HalfW),
          Clamp(y + TruncDiv(movement_amount * v[2], 10), -HalfH, HalfH)>>

(* Direction of a vector in eighths of a turn, counter-clockwise from +x *)
Dir8(v) ==
    LET ax == Abs(v[1])
        ay == Abs(v[2])
        oct == IF 2 * ay < ax THEN 0 ELSE IF 2 * ax < ay THEN 2 ELSE 1
    IN  IF v[1] >= 0 /\ v[2] >= 0 THEN oct
        ELSE IF v[1] < 0 /\ v[2] >= 0 THEN 4 - oct
        ELSE IF v[1] < 0 /\ v[2] < 0 THEN 4 + oct
        ELSE (8 - oct) % 8

(* Quat::angle_between of two rotations about z: the shorter way round *)
AngleBetween(a, b) == Min((a - b) % 8, (b - a) % 8)

(* player_rotation: slerp by max_angle / angle_between, or snap.  `way` is *)
(* the side slerp takes when the target is exactly opposite.               *)
TurnedRotation(rot, aim, turning_speed, delta, way) ==
    IF aim = <<0, 0>> THEN rot
    ELSE LET target == (Dir8(aim) - 2) % 8
             angle_between == AngleBetween(rot, target)
             max_angle == turning_speed * delta
         IN  IF angle_between > max_angle
             THEN IF (target - rot) % 8 < 4 THEN (rot + max_angle) % 8
                  ELSE IF (target - rot) % 8 > 4 THEN (rot - max_angle) % 8
                  ELSE (rot + way * max_angle) % 8
             ELSE target

(* Timer::tick of a repeating timer *)
TickTimer(el, dur, delta) ==
    LET e == el + delta
    IN  IF e >= dur
        THEN [el |-> e - dur * (e \div dur), finished |-> TRUE, times |-> e \div dur]
        ELSE [el |-> e, finished |-> FALSE, times |-> 0]

(* Mutant: the bullet is spawned at rest *)
BulletVelocity_Zero(rot, speed) == <<0, 0>>

(* create_bullets: Vec2::from_angle(angle).rotate(Vec2::X) * speed, with   *)
(* angle the rotation about z plus PI / 2                                  *)
BulletVelocity(rot, speed) ==
    LET d == (rot + 2) % 8
        diag == TruncDiv(speed * 7, 10)
        cx == IF d \in {0} THEN speed ELSE IF d \in {4} THEN -speed
              ELSE IF d \in {1, 7} THEN diag ELSE IF d \in {3, 5} THEN -diag ELSE 0
        cy == IF d \in {2} THEN speed ELSE IF d \in {6} THEN -speed
              ELSE IF d \in {1, 3} THEN diag ELSE IF d \in {5, 7} THEN -diag ELSE 0
    IN  <<cx, cy>>

(* bevy::sprite::collide_aabb::collide(..).is_some(): the boxes overlap    *)
(* strictly on both axes (positions doubled so that half sizes are whole)  *)
Collide(ax, ay, asize, bx, by, bsize) ==
    /\ 2 * ax - asize < 2 * bx + bsize
    /\ 2 * ax + asize > 2 * bx - bsize
    /\ 2 * ay - asize < 2 * by + bsize
    /\ 2 * ay + asize > 2 * by - bsize

(* despawn_bullets: strictly outside the window on some axis *)
OutOfWindow(x, y) == x < -HalfW \/ x > HalfW \/ y < -HalfH \/ y > HalfH

-----------------------------------------------------------------------------
(* Entities, commands, events *)

Range(seq) == {seq[i] : i \in 1 .. Len(seq)}

(* The bundle gamepad_connections spawns.  Four fields are history:        *)
(*   evs      the death events check_for_collisions raised for this entity *)
(*            since its health was last set to starting_health;            *)
(*   doomed   a death event was raised for this entity (by a hit or by a   *)
(*            Mode press) since it was last revived;                       *)
(*   req      what this frame did to it: "connect" (spawned by             *)
(*            gamepad_connections), "respawn" or "suicide" (by             *)
(*            handle_buttons), "none";                                     *)
(*   reacted  respond_to_player_config_change visited it in this frame.    *)
NewPlayer(id, pt, rot, cfg) ==
    [id |-> id, x |-> pt[1], y |-> pt[2], rot |-> rot, scale |-> cfg.scale,
     health |-> cfg.starting_health, el |-> 0, dur |-> cfg.shooting_delay,
     alive |-> TRUE, collider |-> TRUE, evs |-> 0, doomed |-> FALSE,
     req |-> "connect", reacted |-> FALSE]

(* The history of the frame is forgotten when the next frame begins *)
FrameStart(ps) ==
    [i \in 1 .. Len(ps) |-> [ps[i] EXCEPT !.req = "none", !.reacted = FALSE]]

(* The bundle create_bullets spawns, and its optional Collider.  exited is *)
(* history: apply_velocity took the bullet out of the window.  tracked     *)
(* marks the one bullet whose fate the liveness property follows.          *)
NewBullet(p, cfg) ==
    [id |-> p.id, x |-> p.x, y |-> p.y,
     vx |-> BulletVelocity(p.rot, cfg.bullet_speed)[1],
     vy |-> BulletVelocity(p.rot, cfg.bullet_speed)[2],
     scale |-> cfg.bullet_scale, collider |-> cfg.collide, exited |-> FALSE,
     tracked |-> FALSE]

NoEnt == [id |-> -1]

Cmd(op, e, ent) == [op |-> op, e |-> e, ent |-> ent]

Event(kind, id) == [kind |-> kind, id |-> id, age |-> 0]

(* Events::update: what was sent in the previous frame is kept for this    *)
(* frame, what is older is dropped.                                        *)
AgeEvents(q) ==
    LET kept == SelectSeq(q, LAMBDA e : e.age = 0)
    IN  [i \in 1 .. Len(kept) |-> [kept[i] EXCEPT !.age = 1]]

SeqsUpTo(S, n) == UNION {[1 .. k -> S] : k \in 0 .. n}

(* gamepad_connection_system: the Gamepads resource after a batch *)
RECURSIVE GamepadsAfter(_, _)
GamepadsAfter(g, batch) ==
    IF batch = <<>> THEN g
    ELSE GamepadsAfter(IF Head(batch).kind = "Connected"
                       THEN g \cup {Head(batch).id}
                       ELSE g \ {Head(batch).id}, Tail(batch))

(* A batch a set of physical devices can produce: a device connects only   *)
(* when disconnected and disconnects only when connected, and a device     *)
(* seen for the first time gets the next id (ids is the number handed out).*)
RECURSIVE PlausibleBatch(_, _, _)
PlausibleBatch(g, ids, batch) ==
    \/ batch = <<>>
    \/ /\ batch # <<>>
       /\ (Head(batch).kind = "Connected") = (Head(batch).id \notin g)
       /\ Head(batch).id <= ids
       /\ PlausibleBatch(GamepadsAfter(g, <<Head(batch)>>),
                         Max(ids, Head(batch).id + 1), Tail(batch))

RECURSIVE IdsAfter(_, _)
IdsAfter(ids, batch) ==
    IF batch = <<>> THEN ids
    ELSE IdsAfter(Max(ids, Head(batch).id + 1), Tail(batch))

ConnEvents == {Event(k, d) : k \in {"Connected", "Disconnected"}, d \in Devices}

(* GamepadEvent::Button of the Mode button; value 10 is 1.0, the press.    *)
(* The other events of the stream (releases, other buttons, axes) only     *)
(* pass through the match arms that do nothing and are left out.           *)
ButtonEvent(value, id) == [kind |-> "Mode", id |-> id, value |-> value, age |-> 0]

ButtonEvents(g) == {ButtonEvent(10, d) : d \in g}

(* The batches of connection events the devices can produce with at most n events *)
ConnBatches(g, ids, n) == {cb \in SeqsUpTo(ConnEvents, n) : PlausibleBatch(g, ids, cb)}

-----------------------------------------------------------------------------
(* gamepad_connections *)

(* for connection_event in connection_events.iter(): the commands queued   *)
(* and the events left unread by the return in the Disconnected arm.       *)
(* rnd[n] is what the random generator gives for the n-th event from the   *)
(* end of the batch.                                                       *)
RECURSIVE ConnectionLoop(_, _, _, _)
ConnectionLoop(q, ps, cfg, rnd) ==
    IF q = <<>> THEN [cmds |-> <<>>, rest |-> <<>>]
    ELSE LET ev == Head(q)
             matches == {i \in 1 .. Len(ps) : ps[i].id = ev.id}
         IN  IF ev.kind = "Connected"
             THEN LET r == ConnectionLoop(Tail(q), ps, cfg, rnd)
                      pl == NewPlayer(ev.id, rnd[Len(q)][1], rnd[Len(q)][2], cfg)
                  IN  [cmds |-> <<Cmd("spawn_player", 0, pl)>> \o r.cmds,
                       rest |-> r.rest]
             ELSE IF matches # {}
                  THEN [cmds |-> <<Cmd("despawn_player",
                                       CHOOSE i \in matches : \A k \in matches : i <= k,
                                       NoEnt)>>,
                        rest |-> Tail(q)]
                  ELSE ConnectionLoop(Tail(q), ps, cfg, rnd)

-----------------------------------------------------------------------------
(* check_for_collisions *)

(* Mutant: the owner test never skips a target *)
SameOwner_Never(hit_id, bullet_id) == FALSE

(* if hit_id.0 == bullet_id.0 { continue; } *)
SameOwner(hit_id, bullet_id) == hit_id = bullet_id

(* Mutant: the event is sent for any health at or below zero *)
DeathRaised_AtOrBelow(current_health) == current_health <= 0

(* if player_health.current_health == 0 { send PlayerDied } *)
DeathRaised(current_health) == current_health = 0

(* Mutant: the inner loop goes on after a collision *)
StopAtFirstHit_Never == FALSE

(* the break that ends the inner loop after a collision *)
StopAtFirstHit == TRUE

(* Mutant: a struck entity without Health is despawned but not marked *)
Consumed_BulletOnly(j, isPlayer, ti) == {<<"bullet", j>>}

(* bullets_despawned.insert(..): the bullet, and the entity it struck when *)
(* that one has no Health                                                  *)
Consumed(j, isPlayer, ti) ==
    {<<"bullet", j>>} \cup (IF isPlayer THEN {} ELSE {<<"bullet", ti>>})

(* The k-th entity of hit_query (the players, then the bullets) is one    *)
(* bullet j collides with: it has a Collider, is not marked despawned,     *)
(* has another id, and its box overlaps the bullet's.                      *)
Hittable(st, bs, j, k) ==
    LET isPlayer == k <= Len(st.players)
        ti == IF isPlayer THEN k ELSE k - Len(st.players)
        t == IF isPlayer THEN st.players[ti] ELSE bs[ti]
    IN  /\ t.collider
        /\ <<IF isPlayer THEN "player" ELSE "bullet", ti>> \notin st.despawned
        /\ ~SameOwner(t.id, bs[j].id)
        /\ Collide(t.x, t.y, t.scale, bs[j].x, bs[j].y, bs[j].scale)

(* What a collision of bullet j does: the bullet is despawned and marked;  *)
(* a target with Health loses one point, one without is despawned and      *)
(* marked.  st is the pass so far.  The record added to hits is history;   *)
(* its field open counts the entities the bullet could have hit, alive     *)
(* tells whether a struck player had the Alive marker.                     *)
ResolveHit(st, bs, j, isPlayer, ti) ==
    LET h == IF isPlayer THEN st.players[ti].health - 1 ELSE 0
        raised == isPlayer /\ DeathRaised(h)
        tid == IF isPlayer THEN st.players[ti].id ELSE bs[ti].id
        open == Cardinality({k \in 1 .. (Len(st.players) + Len(bs)) : Hittable(st, bs, j, k)})
    IN  [players |-> IF isPlayer
                     THEN [st.players EXCEPT ![ti].health = h,
                                             ![ti].evs = @ + (IF raised THEN 1 ELSE 0),
                                             ![ti].doomed = @ \/ raised]
                     ELSE st.players,
         despawned |-> st.despawned \cup Consumed(j, isPlayer, ti),
         cmds |-> st.cmds \o <<Cmd("despawn_bullet", j, NoEnt)>>
                  \o (IF isPlayer THEN <<>> ELSE <<Cmd("despawn_bullet", ti, NoEnt)>>),
         died |-> st.died \o (IF raised THEN <<Event("PlayerDied", tid)>> ELSE <<>>),
         hits |-> Append(st.hits,
                         [b |-> j, bid |-> bs[j].id, player |-> isPlayer, t |-> ti,
                          tid |-> tid, health |-> h, raised |-> raised,
                          alive |-> isPlayer /\ st.players[ti].alive,
                          open |-> open])]

(* for (hit_entity, ..) in &mut hit_query, from the k-th entity on: the    *)
(* players, then the bullets; those without Collider are not in the query. *)
RECURSIVE TestTargets(_, _, _, _)
TestTargets(st, bs, j, k) ==
    IF k > Len(st.players) + Len(bs) THEN st
    ELSE LET isPlayer == k <= Len(st.players)
             ti == IF isPlayer THEN k ELSE k - Len(st.players)
         IN  IF ~Hittable(st, bs, j, k)
             THEN TestTargets(st, bs, j, k + 1)
             ELSE IF StopAtFirstHit
                  THEN ResolveHit(st, bs, j, isPlayer, ti)
                  ELSE TestTargets(ResolveHit(st, bs, j, isPlayer, ti), bs, j, k + 1)

(* for (bullet_entity, ..) in &bullet_query, from the j-th bullet on *)
RECURSIVE CollisionPass(_, _, _)
CollisionPass(st, bs, j) ==
    IF j > Len(bs) THEN st
    ELSE IF <<"bullet", j>> \in st.despawned
         THEN CollisionPass(st, bs, j + 1)
         ELSE CollisionPass(TestTargets(st, bs, j, 1), bs, j + 1)

-----------------------------------------------------------------------------
(* handle_buttons *)

(* for ev in gamepad_evr.iter(): the first Mode event of value 1.0 whose   *)
(* device has a player ends the system; the events after it stay unread.   *)
(* The result names that player (0: none) and the unread events.           *)
RECURSIVE ButtonLoop(_, _)
ButtonLoop(q, ps) ==
    IF q = <<>> THEN [player |-> 0, rest |-> <<>>]
    ELSE LET ev == Head(q)
             matches == {i \in 1 .. Len(ps) : ps[i].id = ev.id}
         IN  IF ev.kind = "Mode" /\ ev.value = 10 /\ matches # {}
             THEN [player |-> CHOOSE i \in matches : \A k \in matches : i <= k,
                   rest |-> Tail(q)]
             ELSE ButtonLoop(Tail(q), ps)

-----------------------------------------------------------------------------
(* Applying the deferred commands *)

(* One command applied to the world w (players, bullets, the entities      *)
(* despawned so far, whether a command panicked).                          *)
ApplyCommand(w, c) ==
    IF c.op = "spawn_player" THEN [w EXCEPT !.players = Append(@, c.ent)]
    ELSE IF c.op = "spawn_bullet" THEN [w EXCEPT !.bullets = Append(@, c.ent)]
    ELSE IF c.op = "despawn_player" THEN [w EXCEPT !.goneP = @ \cup {c.e}]
    ELSE IF c.op = "despawn_bullet" THEN [w EXCEPT !.goneB = @ \cup {c.e}]
    ELSE IF c.e \in w.goneP
         THEN IF c.op \in {"insert_alive", "insert_collider"}
              THEN [w EXCEPT !.panic = TRUE]
              ELSE w
    ELSE IF c.op = "insert_alive" THEN [w EXCEPT !.players[c.e].alive = TRUE]
    ELSE IF c.op = "remove_alive" THEN [w EXCEPT !.players[c.e].alive = FALSE]
    ELSE IF c.op = "insert_collider" THEN [w EXCEPT !.players[c.e].collider = TRUE]
    ELSE [w EXCEPT !.players[c.e].collider = FALSE]

RECURSIVE ApplyCommands(_, _)
ApplyCommands(w, q) ==
    IF q = <<>> THEN w ELSE ApplyCommands(ApplyCommand(w, Head(q)), Tail(q))

(* The entities of seq that were not despawned, in order *)
RECURSIVE Remaining(_, _, _)
Remaining(seq, gone, i) ==
    IF i > Len(seq) THEN <<>>
    ELSE (IF i \in gone THEN <<>> ELSE <<seq[i]>>) \o Remaining(seq, gone, i + 1)

-----------------------------------------------------------------------------
(* The state after App::new()...run() has built the world *)

(* What the systems of the frame have done so far (history) *)
NoObs == [last |-> "", hits |-> <<>>, shooters |-> {}, stick |-> <<>>,
          toggled |-> -1, start |-> 0, inv |-> FALSE]

Init ==
    /\ players = <<>>
    /\ bullets = <<>>
    /\ config = InitConfig
    /\ gamepads = {}
    /\ connQ = <<>>
    /\ btnQ = <<>>
    /\ cfgQ = <<>>
    /\ diedQ = <<>>
    /\ cmds = <<>>
    /\ dt = 0
    /\ order = <<>>
    /\ pc = "idle"
    /\ frame = 0
    /\ used = [events |-> 0, ids |-> 0]
    /\ obs = NoObs

(* The system at the head of the frame's order runs *)
Runs(sys) ==
    /\ pc = "run"
    /\ order # <<>>
    /\ Head(order) = sys
    /\ order' = Tail(order)

(* Mutant: the query filter is missing *)
WithAlive_Any(p) == TRUE

(* With<Alive> *)
WithAlive(p) == p.alive

(* First and PreUpdate of a frame: the event buffers are rotated, the      *)
(* input events of the frame arrive, the frame time is measured, and the   *)
(* executor settles on an order for the Update systems.                    *)
BeginFrame ==
    /\ pc = "idle"
    /\ frame < MaxFrames
    /\ \E d \in Dts, sched \in Schedules :
       \E cb \in ConnBatches(gamepads, used.ids,
                             MaxEvents - used.events - (IF d = 1 THEN 0 ELSE 1)) :
       \E bb \in SeqsUpTo(ButtonEvents(GamepadsAfter(gamepads, cb)),
                          MaxEvents - used.events - (IF d = 1 THEN 0 ELSE 1) - Len(cb)) :
          /\ IsSchedule(sched)
          /\ dt' = d
          /\ order' = sched
          /\ gamepads' = GamepadsAfter(gamepads, cb)
          /\ connQ' = AgeEvents(connQ) \o cb
          /\ btnQ' = AgeEvents(btnQ) \o bb
          /\ used' = [events |-> used.events + Len(cb) + Len(bb) + (IF d = 1 THEN 0 ELSE 1),
                      ids |-> IdsAfter(used.ids, cb)]
    /\ cfgQ' = AgeEvents(cfgQ)
    /\ diedQ' = AgeEvents(diedQ)
    /\ pc' = "run"
    /\ frame' = frame + 1
    /\ obs' = NoObs
    /\ players' = FrameStart(players)
    /\ UNCHANGED <<bullets, config, cmds>>

gamepad_connections ==
    /\ Runs("gamepad_connections")
    /\ \E rnd \in [1 .. Len(connQ) -> SpawnPoints \X SpawnRots] :
          LET r == ConnectionLoop(connQ, players, config, rnd)
          IN  /\ cmds' = cmds \o r.cmds
              /\ connQ' = r.rest
    /\ obs' = [obs EXCEPT !.last = "gamepad_connections"]
    /\ UNCHANGED <<players, bullets, config, gamepads, btnQ, cfgQ, diedQ, dt, pc,
                   frame, used>>

(* The number of sticks held away from the centre *)
Deflected(axes) == Cardinality({g \in DOMAIN axes : axes[g] # <<0, 0>>})

(* for gamepad in gamepads.iter(), for each player With<Alive> of that id *)
MovedPlayers(ps, axes) ==
    [i \in 1 .. Len(ps) |->
        LET p == ps[i]
        IN  IF WithAlive(p) /\ p.id \in gamepads
            THEN LET m == MovedPosition(p.x, p.y, axes[p.id], config.speed, dt)
                 IN  [p EXCEPT !.x = m[1], !.y = m[2]]
            ELSE p]

player_movement ==
    /\ Runs("player_movement")
    /\ \E axes \in [gamepads -> MoveAxes] :
          /\ used.events + Deflected(axes) <= MaxEvents
          /\ used' = [used EXCEPT !.events = @ + Deflected(axes)]
          /\ players' = MovedPlayers(players, axes)
          /\ obs' = [obs EXCEPT !.last = "player_movement", !.stick = axes]
    /\ UNCHANGED <<bullets, config, gamepads, connQ, btnQ, cfgQ, diedQ, cmds, dt,
                   pc, frame>>

player_rotation ==
    /\ Runs("player_rotation")
    /\ \E axes \in [gamepads -> AimAxes], way \in {-1, 1} :
          /\ used.events + Deflected(axes) <= MaxEvents
          /\ used' = [used EXCEPT !.events = @ + Deflected(axes)]
          /\ players' =
                [i \in 1 .. Len(players) |->
                    LET p == players[i]
                    IN  IF WithAlive(p) /\ p.id \in gamepads
                        THEN [p EXCEPT !.rot = TurnedRotation(p.rot, axes[p.id],
                                                  config.turning_speed, dt, way)]
                        ELSE p]
    /\ obs' = [obs EXCEPT !.last = "player_rotation"]
    /\ UNCHANGED <<bullets, config, gamepads, connQ, btnQ, cfgQ, diedQ, cmds, dt,
                   pc, frame>>

(* The players whose timer finishes in this frame's tick *)
Firing(ps, delta) ==
    {i \in 1 .. Len(ps) :
        WithAlive(ps[i]) /\ TickTimer(ps[i].el, ps[i].dur, delta).finished}

(* The spawn commands of create_bullets, from the i-th player on *)
RECURSIVE BulletSpawns(_, _, _, _)
BulletSpawns(ps, delta, cfg, i) ==
    IF i > Len(ps) THEN <<>>
    ELSE (IF i \in Firing(ps, delta)
          THEN <<Cmd("spawn_bullet", 0, NewBullet(ps[i], cfg))>>
          ELSE <<>>) \o BulletSpawns(ps, delta, cfg, i + 1)

create_bullets ==
    /\ Runs("create_bullets")
    /\ players' =
          [i \in 1 .. Len(players) |->
              IF WithAlive(players[i])
              THEN [players[i] EXCEPT
                        !.el = TickTimer(players[i].el, players[i].dur, dt).el]
              ELSE players[i]]
    /\ cmds' = cmds \o BulletSpawns(players, dt, config, 1)
    /\ obs' = [obs EXCEPT !.last = "create_bullets", !.shooters = Firing(players, dt)]
    /\ UNCHANGED <<bullets, config, gamepads, connQ, btnQ, cfgQ, diedQ, dt, pc,
                   frame, used>>

apply_velocity ==
    /\ Runs("apply_velocity")
    /\ bullets' =
          [j \in 1 .. Len(bullets) |->
              LET b == bullets[j]
                  nx == b.x + b.vx * dt
                  ny == b.y + b.vy * dt
              IN  [b EXCEPT !.x = nx, !.y = ny,
                            !.exited = ~OutOfWindow(b.x, b.y) /\ OutOfWindow(nx, ny)]]
    /\ obs' = [obs EXCEPT !.last = "apply_velocity"]
    /\ UNCHANGED <<players, config, gamepads, connQ, btnQ, cfgQ, diedQ, cmds, dt,
                   pc, frame, used>>

(* The despawn commands of despawn_bullets, from the j-th bullet on *)
RECURSIVE BoundsDespawns(_, _)
BoundsDespawns(bs, j) ==
    IF j > Len(bs) THEN <<>>
    ELSE (IF OutOfWindow(bs[j].x, bs[j].y)
          THEN <<Cmd("despawn_bullet", j, NoEnt)>>
          ELSE <<>>) \o BoundsDespawns(bs, j + 1)

despawn_bullets ==
    /\ Runs("despawn_bullets")
    /\ cmds' = cmds \o BoundsDespawns(bullets, 1)
    /\ obs' = [obs EXCEPT !.last = "despawn_bullets"]
    /\ UNCHANGED <<players, bullets, config, gamepads, connQ, btnQ, cfgQ, diedQ,
                   dt, pc, frame, used>>

check_for_collisions ==
    /\ Runs("check_for_collisions")
    /\ LET st == CollisionPass([players |-> players, despawned |-> {}, cmds |-> <<>>,
                                died |-> <<>>, hits |-> <<>>], bullets, 1)
       IN  /\ players' = st.players
           /\ cmds' = cmds \o st.cmds
           /\ diedQ' = diedQ \o st.died
           /\ obs' = [obs EXCEPT !.last = "check_for_collisions", !.hits = st.hits]
    /\ UNCHANGED <<bullets, config, gamepads, connQ, btnQ, cfgQ, dt, pc, frame, used>>

config_ui_system ==
    /\ Runs("config_ui_system")
    /\ \E c \in {config} \cup (IF used.events < MaxEvents THEN UiEdits(config) ELSE {}) :
          /\ config' = c
          /\ used' = [used EXCEPT !.events = @ + (IF c = config THEN 0 ELSE 1)]
          /\ cfgQ' = IF PlayerConfigEdited(config, c)
                     THEN Append(cfgQ, Event("PlayerConfigChanged", 0))
                     ELSE cfgQ
    /\ obs' = [obs EXCEPT !.last = "config_ui_system"]
    /\ UNCHANGED <<players, bullets, gamepads, connQ, btnQ, diedQ, cmds, dt, pc, frame>>

(* Mutant: the reaction inserts Collider whatever the configuration says *)
ColliderCommands_AlwaysInsert(n, cfg, i) ==
    [k \in 1 .. (n - i + 1) |-> Cmd("insert_collider", i + k - 1, NoEnt)]

(* The Collider commands of one PlayerConfigChanged, from the i-th player on *)
RECURSIVE ColliderCommands(_, _, _)
ColliderCommands(n, cfg, i) ==
    IF i > n THEN <<>>
    ELSE <<Cmd(IF cfg.invincible THEN "remove_collider" ELSE "insert_collider", i, NoEnt)>>
         \o ColliderCommands(n, cfg, i + 1)

RECURSIVE Repeated(_, _)
Repeated(q, n) == IF n = 0 THEN <<>> ELSE q \o Repeated(q, n - 1)

respond_to_player_config_change ==
    /\ Runs("respond_to_player_config_change")
    /\ players' =
          IF cfgQ = <<>> THEN players
          ELSE [i \in 1 .. Len(players) |->
                   [players[i] EXCEPT !.dur = config.shooting_delay,
                                      !.scale = config.scale,
                                      !.health = config.starting_health,
                                      !.evs = 0,
                                      !.reacted = TRUE]]
    /\ cmds' = cmds \o Repeated(ColliderCommands(Len(players), config, 1), Len(cfgQ))
    /\ cfgQ' = <<>>
    /\ obs' = [obs EXCEPT !.last = "respond_to_player_config_change",
                          !.inv = config.invincible]
    /\ UNCHANGED <<bullets, config, gamepads, connQ, btnQ, diedQ, dt, pc, frame, used>>

handle_buttons ==
    /\ Runs("handle_buttons")
    /\ LET r == ButtonLoop(btnQ, players)
           i == r.player
       IN  /\ btnQ' = r.rest
           /\ IF i = 0
              THEN UNCHANGED <<players, cmds, diedQ>>
              ELSE IF players[i].alive
                   THEN /\ diedQ' = Append(diedQ, Event("PlayerDied", players[i].id))
                        /\ players' = [players EXCEPT ![i].req = "suicide",
                                                      ![i].doomed = TRUE]
                        /\ UNCHANGED cmds
                   ELSE /\ \E pt \in SpawnPoints :
                              players' = [players EXCEPT
                                              ![i].x = pt[1], ![i].y = pt[2],
                                              ![i].health = config.starting_health,
                                              ![i].evs = 0,
                                              ![i].req = "respawn",
                                              ![i].doomed = FALSE]
                        /\ cmds' = Append(cmds, Cmd("insert_alive", i, NoEnt))
                        /\ UNCHANGED diedQ
           /\ obs' = [obs EXCEPT !.last = "handle_buttons",
                                 !.toggled = IF i = 0 THEN -1 ELSE players[i].id,
                                 !.start = config.starting_health]
    /\ UNCHANGED <<bullets, config, gamepads, connQ, cfgQ, dt, pc, frame, used>>

(* The players a batch of PlayerDied events names, among those With<Alive> *)
Killed(ps, q) == {i \in 1 .. Len(ps) : WithAlive(ps[i]) /\ \E k \in 1 .. Len(q) : q[k].id = ps[i].id}

(* The remove::<Alive> commands of kill_player, event by event *)
RECURSIVE KillCommands(_, _)
KillCommands(ps, q) ==
    IF q = <<>> THEN <<>>
    ELSE LET named == {i \in 1 .. Len(ps) : WithAlive(ps[i]) /\ ps[i].id = Head(q).id}
             RECURSIVE each(_)
             each(i) == IF i > Len(ps) THEN <<>>
                        ELSE (IF i \in named THEN <<Cmd("remove_alive", i, NoEnt)>> ELSE <<>>)
                             \o each(i + 1)
         IN  each(1) \o KillCommands(ps, Tail(q))

kill_player ==
    /\ Runs("kill_player")
    /\ players' =
          [i \in 1 .. Len(players) |->
              IF i \in Killed(players, diedQ)
              THEN [players[i] EXCEPT !.x = F32Max, !.y = F32Max]
              ELSE players[i]]
    /\ cmds' = cmds \o KillCommands(players, diedQ)
    /\ diedQ' = <<>>
    /\ obs' = [obs EXCEPT !.last = "kill_player"]
    /\ UNCHANGED <<bullets, config, gamepads, connQ, btnQ, cfgQ, dt, pc, frame, used>>

(* The end of the schedule: the queued commands are applied *)
ApplyDeferred ==
    /\ pc = "run"
    /\ order = <<>>
    /\ LET w == ApplyCommands([players |-> players, bullets |-> bullets,
                               goneP |-> {}, goneB |-> {}, panic |-> FALSE], cmds)
       IN  IF w.panic
           THEN /\ pc' = "panic"
                /\ UNCHANGED <<players, bullets>>
           ELSE /\ pc' = "idle"
                /\ players' = Remaining(w.players, w.goneP, 1)
                /\ bullets' = Remaining(w.bullets, w.goneB, 1)
    /\ cmds' = <<>>
    /\ obs' = [obs EXCEPT !.last = "apply_deferred"]
    /\ UNCHANGED <<config, gamepads, connQ, btnQ, cfgQ, diedQ, dt, order, frame, used>>

Next ==
    \/ BeginFrame
    \/ gamepad_connections
    \/ player_movement
    \/ player_rotation
    \/ create_bullets
    \/ apply_velocity
    \/ despawn_bullets
    \/ check_for_collisions
    \/ config_ui_system
    \/ respond_to_player_config_change
    \/ handle_buttons
    \/ kill_player
    \/ ApplyDeferred

Spec == Init /\ [][Next]_vars

-----------------------------------------------------------------------------
(* Endless play.  App::run goes on running frames for as long as the       *)
(* process lives.  LiveSpec follows the world past the horizon MaxFrames:  *)
(* the devices and the window produce at most LiveEvents inputs, and once  *)
(* the horizon is reached the frames are quiet ones (no connection or      *)
(* button event, an elapsed time of one tick).                             *)

LiveInit ==
    /\ players = <<>>
    /\ bullets = <<>>
    /\ config = InitConfig
    /\ gamepads = {}
    /\ connQ = <<>>
    /\ btnQ = <<>>
    /\ cfgQ = <<>>
    /\ diedQ = <<>>
    /\ cmds = <<>>
    /\ dt = 0
    /\ order = <<>>
    /\ pc = "idle"
    /\ frame = 0
    /\ used = [events |-> MaxEvents - LiveEvents, ids |-> 0]
    /\ obs = NoObs

(* First and PreUpdate of a frame past the horizon *)
ContinueFrame ==
    /\ pc = "idle"
    /\ frame = MaxFrames
    /\ Len(bullets) <= MaxBullets
    /\ \E sched \in Schedules :
          /\ IsSchedule(sched)
          /\ order' = sched
    /\ dt' = 1
    /\ connQ' = AgeEvents(connQ)
    /\ btnQ' = AgeEvents(btnQ)
    /\ cfgQ' = AgeEvents(cfgQ)
    /\ diedQ' = AgeEvents(diedQ)
    /\ pc' = "run"
    /\ obs' = NoObs
    /\ players' = FrameStart(players)
    /\ UNCHANGED <<bullets, config, gamepads, cmds, frame, used>>

(* Between two frames the observer picks a bullet to follow, when it is    *)
(* following none.  Nothing of the program changes.                        *)
Track ==
    /\ pc = "idle"
    /\ \A j \in 1 .. Len(bullets) : ~bullets[j].tracked
    /\ \E j \in 1 .. Len(bullets) :
          bullets' = [bullets EXCEPT ![j].tracked = TRUE]
    /\ UNCHANGED <<players, config, gamepads, connQ, btnQ, cfgQ, diedQ, cmds,
                   dt, order, pc, frame, used, obs>>

LiveNext ==
    \/ Next
    \/ ContinueFrame
    \/ Track

(* The main loop never stops running frames while the process lives: a    *)
(* frame that can begin does begin, the executor runs the system at the    *)
(* head of the frame's order, and the commands of a finished schedule are  *)
(* applied.  (A system has no guard of its own, so it is enabled exactly   *)
(* when Runs of it is.)                                                    *)
LiveSpec ==
    /\ LiveInit
    /\ [][LiveNext]_vars
    /\ WF_vars(BeginFrame)
    /\ WF_vars(ContinueFrame)
    /\ WF_vars(ApplyDeferred)
    /\ \A sys \in Systems : WF_order(Runs(sys))

-----------------------------------------------------------------------------
(* Properties *)

Carrying(d) == Cardinality({i \in 1 .. Len(players) : players[i].id = d})

HitRecords == {obs.hits[k] : k \in 1 .. Len(obs.hits)}

(* C1: at the end of every frame, the number of player entities carrying a *)
(* device id is 1 if that device is connected and 0 otherwise.             *)
C1_OnePlayerPerConnectedDevice ==
    pc = "idle" =>
        \A d \in Devices : Carrying(d) = (IF d \in gamepads THEN 1 ELSE 0)

(* C2: in every reachable state every player's current_health is >= 0.     *)
C2_HealthNeverNegative ==
    \A i \in 1 .. Len(players) : players[i].health >= 0

(* C3: check_for_collisions raises a death event for a hit on a player     *)
(* exactly when the hit leaves the health at zero, and between two resets  *)
(* of a player's health at most one such event is raised for it.           *)
C3_DeathEventAtZeroOnly ==
    /\ \A h \in HitRecords : h.player => (h.raised <=> h.health = 0)
    /\ \A i \in 1 .. Len(players) : players[i].evs <= 1

(* C3 witness: a hit has taken a player's health to zero and raised the event *)
C3_Witness ==
    \E h \in HitRecords : h.player /\ h.raised /\ h.health = 0

(* C4: owner immunity: no hit the collision pass resolves (a health        *)
(* change, a destroyed target, a consumed projectile) pairs a projectile   *)
(* with an entity of the projectile's own id.                              *)
C4_OwnerImmunity ==
    \A h \in HitRecords : h.bid # h.tid

(* C4 witness: the pass has run over a projectile that overlaps a          *)
(* collidable player of its own id, and has resolved no hit for it.        *)
C4_Witness ==
    /\ obs.last = "check_for_collisions"
    /\ \E i \in 1 .. Len(players), j \in 1 .. Len(bullets) :
          /\ players[i].collider
          /\ players[i].id = bullets[j].id
          /\ Collide(players[i].x, players[i].y, players[i].scale,
                     bullets[j].x, bullets[j].y, bullets[j].scale)
          /\ \A h \in HitRecords : h.b # j

(* C5: in every reachable state a player that is not alive is not collidable. *)
C5_DeadNotCollidable ==
    \A i \in 1 .. Len(players) : ~players[i].alive => ~players[i].collider

(* C6: a player that is dead when the frame starts is left as it is by     *)
(* player_movement, player_rotation and create_bullets (position, heading, *)
(* fire timer) and spawns no projectile, whatever its device's inputs are: *)
(* the step of each of the three systems keeps the record of every dead    *)
(* player, counts none of them among the shooters, and queues no more      *)
(* spawns than there are living players.                                   *)
C6_DeadPlayersIgnoreInput ==
    [][(/\ pc = "run"
        /\ order # <<>>
        /\ Head(order) \in {"player_movement", "player_rotation", "create_bullets"})
       => /\ \A i \in 1 .. Len(players) :
                ~players[i].alive =>
                    /\ players'[i] = players[i]
                    /\ i \notin obs'.shooters
          /\ Len(cmds') - Len(cmds) <= Cardinality({i \in 1 .. Len(players) : players[i].alive})]_vars

(* C6 witness: create_bullets has run in a frame in which a dead player's  *)
(* device held its stick deflected and the player's fire interval elapsed. *)
C6_Witness ==
    /\ obs.last = "create_bullets"
    /\ \E i \in 1 .. Len(players) :
          /\ ~players[i].alive
          /\ players[i].id \in DOMAIN obs.stick
          /\ obs.stick[players[i].id] # <<0, 0>>
          /\ dt >= players[i].dur

(* C7: in one collision pass each projectile resolves at most one hit.     *)
C7_OneHitPerProjectile ==
    \A k1, k2 \in 1 .. Len(obs.hits) : obs.hits[k1].b = obs.hits[k2].b => k1 = k2

(* C7 witness: a projectile that overlapped two entities it could hit has  *)
(* resolved its hit.                                                       *)
C7_Witness ==
    \E h \in HitRecords : h.open >= 2

(* C8: a projectile that apply_velocity takes out of the window is removed *)
(* in that same frame, whatever the order of the systems.                  *)
C8_ExitedBulletsRemoved ==
    pc = "idle" => \A j \in 1 .. Len(bullets) : ~bullets[j].exited

(* C9: after every step of player_movement, each player it moves lies      *)
(* within the window's half extents on both axes.                          *)
C9_MovedPlayersInWindow ==
    obs.last = "player_movement" =>
        \A i \in 1 .. Len(players) :
            (players[i].alive /\ players[i].id \in gamepads) =>
                /\ -HalfW <= players[i].x /\ players[i].x <= HalfW
                /\ -HalfH <= players[i].y /\ players[i].y <= HalfH

(* C9 witness: a deflected stick has pushed a player against the window's edge *)
C9_Witness ==
    /\ obs.last = "player_movement"
    /\ \E i \in 1 .. Len(players) :
          /\ players[i].alive
          /\ players[i].id \in DOMAIN obs.stick
          /\ obs.stick[players[i].id] # <<0, 0>>
          /\ players[i].x = HalfW

(* C10: a connect event for a device id that already has a player entity   *)
(* creates no second player entity.                                        *)
C10_ConnectIsIdempotent ==
    \A k \in 1 .. Len(cmds) :
        cmds[k].op = "spawn_player" =>
            \A i \in 1 .. Len(players) : players[i].id # cmds[k].ent.id

(* C11: at the end of every frame no connection event of the frame's batch *)
(* is left unread: every disconnect and every connect of the batch has     *)
(* been handled by gamepad_connections in that frame.                      *)
C11_ConnectionBatchProcessed ==
    pc = "idle" => connQ = <<>>

(* C12: a dead player that a Mode press (value 1.0) revives is, when the   *)
(* frame ends, alive, at a position inside the window, and has the         *)
(* starting health of the configuration (the one in force at the press,    *)
(* or, when a configuration change was answered in the same frame, the     *)
(* one that reaction read).                                                *)
C12_RespawnedAliveAtFullHealth ==
    pc = "idle" =>
        \A i \in 1 .. Len(players) :
            players[i].req = "respawn" =>
                /\ players[i].alive
                /\ players[i].health = obs.start \/ players[i].reacted
                /\ ~OutOfWindow(players[i].x, players[i].y)

(* C13: when respond_to_player_config_change reads a PlayerConfigChanged,  *)
(* every player, alive or dead, gets the shooting delay and the starting   *)
(* health of the configuration, keeps its position and its Alive marker,   *)
(* and is given one kind of Collider command, insert when the              *)
(* configuration is not invincible and remove when it is; when the         *)
(* commands of the frame are applied every player the reaction visited     *)
(* has a Collider exactly when the configuration was not invincible.       *)
C13_ConfigChangeReaction ==
    [][/\ (/\ pc = "run"
           /\ order # <<>>
           /\ Head(order) = "respond_to_player_config_change"
           /\ cfgQ # <<>>)
          => \A i \in 1 .. Len(players) :
                LET queued == {cmds'[k] : k \in (Len(cmds) + 1) .. Len(cmds')}
                    wanted == Cmd(IF config.invincible THEN "remove_collider"
                                  ELSE "insert_collider", i, NoEnt)
                IN  /\ players'[i].dur = config.shooting_delay
                    /\ players'[i].health = config.starting_health
                    /\ players'[i].x = players[i].x
                    /\ players'[i].y = players[i].y
                    /\ players'[i].alive = players[i].alive
                    /\ {c \in queued : c.e = i} = {wanted}
       /\ (pc = "run" /\ pc' = "idle")
          => \A i \in 1 .. Len(players') :
                players'[i].reacted => (players'[i].collider = ~obs.inv)]_vars

(* C13 witness: a frame has ended in which the reaction visited a dead     *)
(* player under an invincible configuration and took its Collider away.    *)
C13_Witness ==
    /\ pc = "idle"
    /\ config.invincible
    /\ \E i \in 1 .. Len(players) :
          players[i].reacted /\ ~players[i].alive /\ ~players[i].collider

(* C14: a death event check_for_collisions sends is read by kill_player    *)
(* later in the same frame: when the collision pass has raised an event,   *)
(* kill_player is still to run in that frame.                              *)
C14_DeathEventsConsumedSameFrame ==
    (obs.last = "check_for_collisions" /\ \E h \in HitRecords : h.raised)
        => "kill_player" \in Range(order)

(* C15: a player the frame has created for a connect event or revived for  *)
(* a Mode press has, once the commands of the frame are applied, a         *)
(* Collider exactly when the configuration is not invincible.              *)
C15_CollidableFollowsInvincible ==
    pc = "idle" =>
        \A i \in 1 .. Len(players) :
            players[i].req \in {"connect", "respawn"} =>
                (players[i].collider = ~config.invincible)

(* The bullets create_bullets has queued for the players of id d, among    *)
(* the commands after the first n                                          *)
SpawnedFor(d, q, n) ==
    Cardinality({k \in (n + 1) .. Len(q) :
                    q[k].op = "spawn_bullet" /\ q[k].ent.id = d})

(* The completions of the fire timers of the living players of id d, from  *)
(* the i-th player on, in a tick of delta                                  *)
RECURSIVE Completions(_, _, _, _)
Completions(ps, d, delta, i) ==
    IF i > Len(ps) THEN 0
    ELSE (IF ps[i].alive /\ ps[i].id = d
          THEN TickTimer(ps[i].el, ps[i].dur, delta).times ELSE 0)
         + Completions(ps, d, delta, i + 1)

(* C16: in every run of create_bullets the number of bullets spawned for a *)
(* living shooter equals the number of times its repeating timer           *)
(* completed in the frame's tick.                                          *)
C16_OneBulletPerCompletion ==
    [][(pc = "run" /\ order # <<>> /\ Head(order) = "create_bullets")
       => \A d \in Devices :
             SpawnedFor(d, cmds', Len(cmds)) = Completions(players, d, dt, 1)]_vars

(* C17: once every death event has been read and the commands of the frame *)
(* are applied, a player for which a death event was raised (by a hit to   *)
(* zero health or by a Mode press while alive) is not alive.               *)
C17_DeathEventKills ==
    (pc = "idle" /\ diedQ = <<>>) =>
        \A i \in 1 .. Len(players) : players[i].doomed => ~players[i].alive

(* C18: the collision pass never takes health from a player that is not    *)
(* alive.                                                                  *)
C18_DeadPlayersKeepHealth ==
    \A h \in HitRecords : h.player => h.alive

(* C19: when handle_buttons has run, no Mode press (value 1.0) of a device *)
(* that has a player, other than the device whose press was acted on, is   *)
(* left unread.                                                            *)
C19_EveryToggleApplied ==
    obs.last = "handle_buttons" =>
        \A k \in 1 .. Len(btnQ) :
            (/\ btnQ[k].kind = "Mode"
             /\ btnQ[k].value = 10
             /\ \E i \in 1 .. Len(players) : players[i].id = btnQ[k].id)
                => btnQ[k].id = obs.toggled

(* C20: in one collision pass a struck entity without Health (a bullet     *)
(* with a Collider) is despawned, is struck by no other bullet of the      *)
(* pass, and resolves no hit of its own: no bullet is consumed twice.      *)
C20_StruckBulletConsumedOnce ==
    pc = "run" =>
        \A k1 \in 1 .. Len(obs.hits) :
            ~obs.hits[k1].player =>
                /\ Cmd("despawn_bullet", obs.hits[k1].t, NoEnt) \in Range(cmds)
                /\ obs.hits[k1].t # obs.hits[k1].b
                /\ \A k2 \in 1 .. Len(obs.hits) :
                      k2 # k1 =>
                          /\ obs.hits[k2].b # obs.hits[k1].t
                          /\ ~obs.hits[k2].player => obs.hits[k2].t # obs.hits[k1].t

(* C20 witness: a bullet was struck by a bullet that came before it in the *)
(* pass, while it overlapped a player with a Collider and another id that  *)
(* it would have hit in its own turn.                                      *)
C20_Witness ==
    /\ obs.last = "check_for_collisions"
    /\ \E h \in HitRecords :
          /\ ~h.player
          /\ h.t > h.b
          /\ \E i \in 1 .. Len(players) :
                /\ players[i].collider
                /\ players[i].id # bullets[h.t].id
                /\ Collide(players[i].x, players[i].y, players[i].scale,
                           bullets[h.t].x, bullets[h.t].y, bullets[h.t].scale)

Following == \E j \in 1 .. Len(bullets) : bullets[j].tracked

(* C21: every projectile is eventually destroyed.  Whichever bullet is     *)
(* followed, a later state holds it no more (despawn_bullets or            *)
(* check_for_collisions has removed it), unless the process has panicked   *)
(* and its world is gone; and the world never holds more than MaxBullets   *)
(* bullets, so that endless play is followed without end.                  *)
C21_EveryProjectileDestroyed ==
    /\ Following ~> (~Following \/ pc = "panic")
    /\ [](Len(bullets) <= MaxBullets)

(* C21 witness: past the horizon, despawn_bullets has queued the despawn   *)
(* of the followed bullet, which has flown out of the window.              *)
C21_Witness ==
    /\ frame = MaxFrames
    /\ obs.last = "despawn_bullets"
    /\ \E k \in 1 .. Len(cmds) :
          /\ cmds[k].op = "despawn_bullet"
          /\ bullets[cmds[k].e].tracked
          /\ bullets[cmds[k].e].exited

=============================================================================
